---------------------------- MODULE Spec2Model ----------------------------
(***************************************************************************)
(* Model of mio's src/net/tcp.rs: TcpStream and TcpListener, their         *)
(* constructors, try_clone, accept, raw-fd conversion and the Evented      *)
(* registration protocol guarded by SelectorId.                            *)
(*                                                                         *)
(* The SelectorId type (super::SelectorId) and the platform socket layer   *)
(* (sys::TcpStream, sys::TcpListener, net2::TcpBuilder) are collaborators  *)
(* whose code is outside tcp.rs; they are modelled from the specification. *)
(***************************************************************************)
EXTENDS Integers, Sequences, FiniteSets, TLC

(* ------------------------------ bounds --------------------------------- *)

\* number of TcpStream/TcpListener values ever constructed in one run
MaxInst == 2

\* number of distinct Poll instances (reactors); their selector ids are 1..NumPolls
NumPolls == 2

\* connections a peer may have queued on one listening socket
MaxPending == 1

\* values constructed in a run that moves bytes: a listener and both ends of
\* a connection
MaxIoInst == 3

\* bytes written to one direction of a connection in one run
MaxBytes == 2

\* room in the tables of values, handles and sockets
Slots == IF MaxInst >= MaxIoInst THEN MaxInst ELSE MaxIoInst

(* ------------------------- program constants --------------------------- *)

\* backlog passed to listen() by TcpListener::bind
Backlog == 1024

(* ------------------------------ domains -------------------------------- *)

Polls == 1..NumPolls
Tokens == {1, 2}
Interests == {"readable"}
PollOpts == {"edge"}
Platforms == {"unix", "windows"}
Ttls == {64}
Bytes == {"a", "b"}
Hows == {"Read", "Write", "Both"}

\* the buffers a caller passes to write
Bufs == UNION {[1..k -> Bytes] : k \in 1..MaxBytes}

Addrs ==
  { [fam |-> "V4", ip |-> "127.0.0.1", port |-> 8080],
    [fam |-> "V6", ip |-> "::1", port |-> 8080] }

NoAddr == [fam |-> "none", ip |-> "none", port |-> 0]

\* outcomes the platform layer may report for a call it does not reject itself
Outcomes == {"Ok", "OsError"}

VARIABLES
  platform,   \* the build target: cfg!(unix) / cfg!(windows)
  cap,        \* how many values the run constructs
  insts,      \* the TcpStream / TcpListener values: kind, owned fd, selector_id
  fdSock,     \* OS handle -> kernel socket it refers to (0: not allocated)
  closes,     \* OS handle -> how many times it has been closed
  rawfds,     \* handles whose ownership was moved out with into_raw_fd
  socks,      \* kernel sockets: kind, queue of pending connections
  regs,       \* the platform layer's registrations: handle -> poll -> registration
  last        \* the call that has just returned, until the caller takes the result

vars == <<platform, cap, insts, fdSock, closes, rawfds, socks, regs, last>>

\* the part of the state an operation can act on
Snapshot ==
  [insts |-> insts, fdSock |-> fdSock, closes |-> closes, rawfds |-> rawfds,
   socks |-> socks, regs |-> regs]

(* ------------------------------ records -------------------------------- *)

NoInst == [kind |-> "none", fd |-> 0, selector_id |-> 0]
\* a kernel socket: its kind, the accept queue (listener), the O_NONBLOCK
\* mode, the connection state and the socket at the other end (0: none or
\* remote), the pending SO_ERROR, the bytes accepted for sending so far, how
\* many of the peer's bytes have been read, and whether the sending and the
\* receiving half have been shut down
NoSock ==
  [kind |-> "none", pending |-> <<>>, nonblocking |-> FALSE, conn |-> "none",
   peer |-> 0, so_error |-> "none", sent |-> <<>>, nread |-> 0,
   wr_shut |-> FALSE, rd_shut |-> FALSE]

\* the socket sys::TcpStream::connect returns: non-blocking, connect in progress
ConnectingSock ==
  [NoSock EXCEPT !.kind = "stream", !.nonblocking = TRUE, !.conn = "connecting"]

\* the socket sys::TcpListener::new returns: non-blocking, listening
ListeningSock ==
  [NoSock EXCEPT !.kind = "listener", !.nonblocking = TRUE, !.conn = "listening"]

\* the socket sys accept returns: non-blocking, connected to socket peer
AcceptedSock(peer) ==
  [NoSock EXCEPT !.kind = "stream", !.nonblocking = TRUE, !.conn = "connected",
                 !.peer = peer]
NoReg == [token |-> 0, interest |-> "none", opts |-> "none", by |-> 0]

\* one call made to a collaborator during an operation
CallRec(fn, addr, n, res) == [fn |-> fn, addr |-> addr, n |-> n, res |-> res]

\* the state before anything is constructed
NoSnapshot ==
  [insts |-> [i \in 1..Slots |-> NoInst],
   fdSock |-> [f \in 1..Slots |-> 0],
   closes |-> [f \in 1..Slots |-> 0],
   rawfds |-> {},
   socks |-> [s \in 1..Slots |-> NoSock],
   regs |-> [f \in 1..Slots |-> [p \in Polls |-> NoReg]]]

\* the record of an operation of tcp.rs: what was called on which instance
\* with which reactor, what it returned (new: the instance it returned), the
\* collaborator calls it made, and the state it was called in (pre)
Op(op, inst, poll, res, new, addr, calls) ==
  [op |-> op, inst |-> inst, poll |-> poll, res |-> res, new |-> new,
   addr |-> addr, calls |-> calls, n |-> 0, data |-> <<>>, pre |-> Snapshot]

\* the record of an operation that moves bytes or takes an argument to pass
\* on: n is the count it returned, data the bytes (or the value) concerned
OpIo(op, inst, res, n, data, calls) ==
  [Op(op, inst, 0, res, 0, NoAddr, calls) EXCEPT !.n = n, !.data = data]

\* no call has returned a result the caller still holds
NoOp ==
  [op |-> "none", inst |-> 0, poll |-> 0, res |-> "Ok", new |-> 0,
   addr |-> NoAddr, calls |-> <<>>, n |-> 0, data |-> <<>>,
   pre |-> NoSnapshot]

\* calls are made one at a time
Idle == last = NoOp

\* a call is between two of its statements
Running == last.res = "Running"

IsLive(i) == insts[i].kind \in {"stream", "listener"}

\* allocation: identities are never reused
NextInst == Cardinality({i \in 1..Slots : insts[i].kind # "none"}) + 1
NextFd == Cardinality({f \in 1..Slots : fdSock[f] # 0}) + 1
NextSock == Cardinality({s \in 1..Slots : socks[s].kind # "none"}) + 1

SockOf(i) == fdSock[insts[i].fd]

(* --------------------- SelectorId (super::SelectorId) ------------------ *)

\* SelectorId::new(): the unset affinity
SelectorId_new == 0

\* SelectorId::associate_selector(&self, poll): result and the id afterwards
associate_selector(id, poll) ==
  IF id # 0 /\ id # poll
    THEN [res |-> "AlreadyRegistered", id |-> id]
    ELSE [res |-> "Ok", id |-> poll]

\* SelectorId::clone(): a copy of the current value
SelectorId_clone(id) == id

(* ----------------------- platform layer (sys) -------------------------- *)

\* sys register: subscribes handle fd with poll; the platform decides the outcome
sys_register(r, fd, poll, reg, outcome) ==
  IF outcome = "Ok"
    THEN [res |-> "Ok", regs |-> [r EXCEPT ![fd][poll] = reg]]
    ELSE [res |-> outcome, regs |-> r]

\* sys reregister: replaces an existing subscription, "not found" without one
sys_reregister(r, fd, poll, reg, outcome) ==
  IF r[fd][poll] = NoReg
    THEN [res |-> "NotFound", regs |-> r]
    ELSE IF outcome = "Ok"
      THEN [res |-> "Ok",
            regs |-> [r EXCEPT ![fd][poll] =
                        [reg EXCEPT !.by = r[fd][poll].by]]]
      ELSE [res |-> outcome, regs |-> r]

\* sys deregister: removes an existing subscription, "not found" without one
sys_deregister(r, fd, poll, outcome) ==
  IF r[fd][poll] = NoReg
    THEN [res |-> "NotFound", regs |-> r]
    ELSE IF outcome = "Ok"
      THEN [res |-> "Ok", regs |-> [r EXCEPT ![fd][poll] = NoReg]]
      ELSE [res |-> outcome, regs |-> r]

\* the address a connection from local socket c comes from
ClientAddr(c) == [fam |-> "V4", ip |-> "127.0.0.1", port |-> 8080 + c]

\* the local socket a pending connection came from (0: a remote peer)
ClientOf(addr) ==
  IF \E c \in 1..Slots : ClientAddr(c) = addr
    THEN CHOOSE c \in 1..Slots : ClientAddr(c) = addr
    ELSE 0

\* the sockets after the connection from addr is handed out as socket child:
\* the two ends are connected to each other
Established(ss, child, addr) ==
  [k \in 1..Slots |->
     IF k = child THEN AcceptedSock(ClientOf(addr))
     ELSE IF k = ClientOf(addr)
       THEN [ss[k] EXCEPT !.conn = "connected", !.peer = child]
       ELSE ss[k]]

\* sys accept: would-block on an empty queue, else the oldest pending connection
sys_accept(s) ==
  IF s.pending = <<>>
    THEN [res |-> "WouldBlock", peer |-> NoAddr, sock |-> s]
    ELSE [res |-> "Ok", peer |-> Head(s.pending),
          sock |-> [s EXCEPT !.pending = Tail(s.pending)]]

\* sys take_error: SO_ERROR is returned and cleared by the read
sys_take_error(s) ==
  [res |-> "Ok",
   val |-> IF s.so_error = "none" THEN <<>> ELSE <<s.so_error>>,
   sock |-> [s EXCEPT !.so_error = "none"]]

\* the other end of socket s as the kernel sees it (none, or remote: nothing
\* arrives from it)
PeerSock(ss, s) == IF ss[s].peer = 0 THEN NoSock ELSE ss[ss[s].peer]

\* sys write of buf, of which the kernel has room for k bytes: a pending
\* socket error is reported first (and cleared), then a shut-down sending
\* half, then the state of the connection
sys_write(s, buf, k) ==
  IF s.so_error # "none"
    THEN [res |-> s.so_error, n |-> 0, sock |-> [s EXCEPT !.so_error = "none"]]
  ELSE IF s.wr_shut
    THEN [res |-> "BrokenPipe", n |-> 0, sock |-> s]
  ELSE IF s.conn \in {"connecting", "queued"}
    THEN [res |-> "WouldBlock", n |-> 0, sock |-> s]
  ELSE IF s.conn # "connected"
    THEN [res |-> "NotConnected", n |-> 0, sock |-> s]
  ELSE IF k = 0
    THEN [res |-> "WouldBlock", n |-> 0, sock |-> s]
    ELSE [res |-> "Ok", n |-> k,
          sock |-> [s EXCEPT !.sent = @ \o SubSeq(buf, 1, k)]]

\* sys read into a buffer of n bytes from the bytes peer has sent: would-block
\* when nothing is unread, end of stream once the peer has shut down sending
sys_read(s, peer, n) ==
  LET avail == Len(peer.sent) - s.nread
      m == IF avail < n THEN avail ELSE n
  IN  IF s.so_error # "none"
        THEN [res |-> s.so_error, data |-> <<>>,
              sock |-> [s EXCEPT !.so_error = "none"]]
      ELSE IF s.conn \in {"connecting", "queued"}
        THEN [res |-> "WouldBlock", data |-> <<>>, sock |-> s]
      ELSE IF s.conn # "connected"
        THEN [res |-> "NotConnected", data |-> <<>>, sock |-> s]
      ELSE IF s.rd_shut
        THEN [res |-> "Ok", data |-> <<>>, sock |-> s]
      ELSE IF m > 0
        THEN [res |-> "Ok", data |-> SubSeq(peer.sent, s.nread + 1, s.nread + m),
              sock |-> [s EXCEPT !.nread = @ + m]]
      ELSE IF peer.wr_shut
        THEN [res |-> "Ok", data |-> <<>>, sock |-> s]
        ELSE [res |-> "WouldBlock", data |-> <<>>, sock |-> s]

\* sys shutdown: closes the halves of a connected socket that how names
sys_shutdown(s, how) ==
  IF s.conn # "connected"
    THEN [res |-> "NotConnected", sock |-> s]
    ELSE [res |-> "Ok",
          sock |-> [s EXCEPT !.wr_shut = @ \/ how \in {"Write", "Both"},
                             !.rd_shut = @ \/ how \in {"Read", "Both"}]]

(* ------------------- try!: run a plan of fallible steps ---------------- *)

\* the steps of plan that run when step failAt (0: none) is rejected; a
\* rejected step returns early, so no later step runs
RunPlan(plan, failAt) ==
  [k \in 1..(IF failAt = 0 THEN Len(plan) ELSE failAt) |->
     [plan[k] EXCEPT !.res = IF k = failAt THEN "OsError" ELSE "Ok"]]

PlanResult(plan, failAt) == IF failAt = 0 THEN "Ok" ELSE "OsError"

(* ------------------------------ TcpStream ------------------------------ *)

inaddr_any(other) ==
  IF other.fam = "V4"
    THEN [fam |-> "V4", ip |-> "0.0.0.0", port |-> 0]
    ELSE [fam |-> "V6", ip |-> "::", port |-> 0]

TcpBuilder_new(addr) ==
  IF addr.fam = "V4"
    THEN CallRec("TcpBuilder::new_v4", NoAddr, 0, "Ok")
    ELSE CallRec("TcpBuilder::new_v6", NoAddr, 0, "Ok")

\* the collaborator call TcpStream::connect_stream issues
connect_stream_plan(addr) ==
  <<CallRec("sys::TcpStream::connect", addr, 0, "Ok")>>

\* the collaborator calls TcpStream::connect issues, in order, when built
\* for target
connect_plan_on(target, addr) ==
  <<TcpBuilder_new(addr)>>
  \o (IF target = "windows"
        THEN <<CallRec("TcpBuilder::bind", inaddr_any(addr), 0, "Ok")>>
        ELSE <<>>)
  \o <<CallRec("TcpBuilder::to_tcp_stream", NoAddr, 0, "Ok")>>
  \o connect_stream_plan(addr)

\* connect that binds to the wildcard address on every target
connect_plan_bind_always(addr) ==
  <<TcpBuilder_new(addr),
    CallRec("TcpBuilder::bind", inaddr_any(addr), 0, "Ok"),
    CallRec("TcpBuilder::to_tcp_stream", NoAddr, 0, "Ok")>>
  \o connect_stream_plan(addr)

connect_plan(addr) ==
  connect_plan_on(platform, addr)

\* a new instance of the given kind over a new socket and a new handle
NewOwned(kind, sid) ==
  /\ insts' = [insts EXCEPT ![NextInst] =
                 [kind |-> kind, fd |-> NextFd, selector_id |-> sid]]
  /\ fdSock' = [fdSock EXCEPT ![NextFd] = NextSock]

\* connect that hands out a stream although the connect step was rejected,
\* leaving the error on the socket
connect_swallow(addr, failAt) ==
  /\ Idle
  /\ NextInst <= cap
  /\ failAt <= Len(connect_plan(addr))
  /\ IF failAt = 0 \/ failAt = Len(connect_plan(addr))
       THEN /\ NewOwned("stream", SelectorId_new)
            /\ socks' = [socks EXCEPT ![NextSock] =
                           IF failAt = 0 THEN ConnectingSock
                           ELSE [ConnectingSock EXCEPT !.conn = "failed",
                                                       !.so_error = "OsError"]]
       ELSE UNCHANGED <<insts, fdSock, socks>>
  /\ last' = Op("connect", 0, 0,
                IF failAt = Len(connect_plan(addr)) THEN "Ok"
                ELSE PlanResult(connect_plan(addr), failAt),
                IF failAt = 0 \/ failAt = Len(connect_plan(addr))
                  THEN NextInst ELSE 0, addr,
                RunPlan(connect_plan(addr), failAt))
  /\ UNCHANGED <<platform, cap, closes, rawfds, regs>>

connect(addr, failAt) ==
  /\ Idle
  /\ NextInst <= cap
  /\ failAt <= Len(connect_plan(addr))
  /\ IF failAt = 0
       THEN /\ NewOwned("stream", SelectorId_new)
            /\ socks' = [socks EXCEPT ![NextSock] = ConnectingSock]
       ELSE UNCHANGED <<insts, fdSock, socks>>
  /\ last' = Op("connect", 0, 0, PlanResult(connect_plan(addr), failAt),
                IF failAt = 0 THEN NextInst ELSE 0, addr,
                RunPlan(connect_plan(addr), failAt))
  /\ UNCHANGED <<platform, cap, closes, rawfds, regs>>

\* connect_stream on a socket the caller built itself
connect_stream(addr, failAt) ==
  /\ Idle
  /\ NextInst <= cap
  /\ failAt <= Len(connect_stream_plan(addr))
  /\ IF failAt = 0
       THEN /\ NewOwned("stream", SelectorId_new)
            /\ socks' = [socks EXCEPT ![NextSock] = ConnectingSock]
       ELSE UNCHANGED <<insts, fdSock, socks>>
  /\ last' = Op("connect_stream", 0, 0,
                PlanResult(connect_stream_plan(addr), failAt),
                IF failAt = 0 THEN NextInst ELSE 0, addr,
                RunPlan(connect_stream_plan(addr), failAt))
  /\ UNCHANGED <<platform, cap, closes, rawfds, regs>>

\* TcpStream::try_clone and TcpListener::try_clone: a duplicate handle to the
\* same socket, carrying a copy of the selector id
\* try_clone that gives the clone a fresh selector id
try_clone_fresh(i, outcome) ==
  /\ Idle
  /\ IsLive(i)
  /\ NextInst <= cap
  /\ IF outcome = "Ok"
       THEN /\ insts' = [insts EXCEPT ![NextInst] =
                           [kind |-> insts[i].kind, fd |-> NextFd,
                            selector_id |-> SelectorId_new]]
            /\ fdSock' = [fdSock EXCEPT ![NextFd] = SockOf(i)]
       ELSE UNCHANGED <<insts, fdSock>>
  /\ last' = Op("try_clone", i, 0, outcome,
                IF outcome = "Ok" THEN NextInst ELSE 0, NoAddr,
                <<CallRec("sys.try_clone", NoAddr, 0, outcome)>>)
  /\ UNCHANGED <<platform, cap, closes, rawfds, socks, regs>>

try_clone(i, outcome) ==
  /\ Idle
  /\ IsLive(i)
  /\ NextInst <= cap
  /\ IF outcome = "Ok"
       THEN /\ insts' = [insts EXCEPT ![NextInst] =
                           [kind |-> insts[i].kind, fd |-> NextFd,
                            selector_id |-> SelectorId_clone(insts[i].selector_id)]]
            /\ fdSock' = [fdSock EXCEPT ![NextFd] = SockOf(i)]
       ELSE UNCHANGED <<insts, fdSock>>
  /\ last' = Op("try_clone", i, 0, outcome,
                IF outcome = "Ok" THEN NextInst ELSE 0, NoAddr,
                <<CallRec("sys.try_clone", NoAddr, 0, outcome)>>)
  /\ UNCHANGED <<platform, cap, closes, rawfds, socks, regs>>

\* set_ttl stands for the option setters: forwarded to the socket
set_ttl(i, ttl, outcome) ==
  /\ Idle
  /\ IsLive(i)
  /\ last' = Op("set_ttl", i, 0, outcome, 0, NoAddr,
                <<CallRec("sys.set_ttl", NoAddr, ttl, outcome)>>)
  /\ UNCHANGED <<platform, cap, closes, insts, fdSock, rawfds, socks, regs>>

\* shutdown that returns without passing the request on
shutdown_ignored(i, how) ==
  /\ Idle
  /\ insts[i].kind = "stream"
  /\ last' = OpIo("shutdown", i, "Ok", 0, <<how>>, <<>>)
  /\ UNCHANGED <<platform, cap, closes, insts, fdSock, rawfds, socks, regs>>

shutdown(i, how) ==
  /\ Idle
  /\ insts[i].kind = "stream"
  /\ LET r == sys_shutdown(socks[SockOf(i)], how)
     IN  /\ socks' = [socks EXCEPT ![SockOf(i)] = r.sock]
         /\ last' = OpIo("shutdown", i, r.res, 0, <<how>>,
                         <<CallRec("sys.shutdown", NoAddr, 0, r.res)>>)
  /\ UNCHANGED <<platform, cap, closes, insts, fdSock, rawfds, regs>>

\* take_error that reads the pending error without clearing it
take_error_peek(i) ==
  /\ Idle
  /\ IsLive(i)
  /\ LET r == sys_take_error(socks[SockOf(i)])
     IN  /\ socks' = socks
         /\ last' = OpIo("take_error", i, r.res, 0, r.val,
                         <<CallRec("sys.take_error", NoAddr, 0, r.res)>>)
  /\ UNCHANGED <<platform, cap, closes, insts, fdSock, rawfds, regs>>

\* TcpStream::take_error and TcpListener::take_error
take_error(i) ==
  /\ Idle
  /\ IsLive(i)
  /\ LET r == sys_take_error(socks[SockOf(i)])
     IN  /\ socks' = [socks EXCEPT ![SockOf(i)] = r.sock]
         /\ last' = OpIo("take_error", i, r.res, 0, r.val,
                         <<CallRec("sys.take_error", NoAddr, 0, r.res)>>)
  /\ UNCHANGED <<platform, cap, closes, insts, fdSock, rawfds, regs>>

\* impl Read for TcpStream: read into a buffer of n bytes
read(i, n) ==
  /\ Idle
  /\ insts[i].kind = "stream"
  /\ LET r == sys_read(socks[SockOf(i)], PeerSock(socks, SockOf(i)), n)
     IN  /\ socks' = [socks EXCEPT ![SockOf(i)] = r.sock]
         /\ last' = OpIo("read", i, r.res, Len(r.data), r.data,
                         <<CallRec("sys.read", NoAddr, n, r.res)>>)
  /\ UNCHANGED <<platform, cap, closes, insts, fdSock, rawfds, regs>>

\* write that reports the whole buffer as written
write_all_reported(i, buf, k) ==
  /\ Idle
  /\ insts[i].kind = "stream"
  /\ k <= Len(buf)
  /\ Len(socks[SockOf(i)].sent) + k <= MaxBytes
  /\ LET r == sys_write(socks[SockOf(i)], buf, k)
     IN  /\ socks' = [socks EXCEPT ![SockOf(i)] = r.sock]
         /\ last' = OpIo("write", i, r.res,
                         IF r.res = "Ok" THEN Len(buf) ELSE 0, buf,
                         <<CallRec("sys.write", NoAddr, Len(buf), r.res)>>)
  /\ UNCHANGED <<platform, cap, closes, insts, fdSock, rawfds, regs>>

\* impl Write for TcpStream: write of buf, k bytes of which the kernel takes
write(i, buf, k) ==
  /\ Idle
  /\ insts[i].kind = "stream"
  /\ k <= Len(buf)
  /\ Len(socks[SockOf(i)].sent) + k <= MaxBytes
  /\ LET r == sys_write(socks[SockOf(i)], buf, k)
     IN  /\ socks' = [socks EXCEPT ![SockOf(i)] = r.sock]
         /\ last' = OpIo("write", i, r.res, r.n, buf,
                         <<CallRec("sys.write", NoAddr, Len(buf), r.res)>>)
  /\ UNCHANGED <<platform, cap, closes, insts, fdSock, rawfds, regs>>

(* ------------------------------- Evented ------------------------------- *)

\* register with the result of associate_selector ignored
register_unchecked(i, poll, token, interest, opts, outcome) ==
  /\ Idle
  /\ IsLive(i)
  /\ LET a == associate_selector(insts[i].selector_id, poll)
         c1 == CallRec("associate_selector", NoAddr, 0, a.res)
         s == sys_register(regs, insts[i].fd, poll,
                [token |-> token, interest |-> interest,
                 opts |-> opts, by |-> i], outcome)
     IN  /\ insts' = [insts EXCEPT ![i].selector_id = a.id]
         /\ regs' = s.regs
         /\ last' = Op("register", i, poll, s.res, 0, NoAddr,
                       <<c1, CallRec("sys.register", NoAddr, 0, s.res)>>)
  /\ UNCHANGED <<platform, cap, closes, fdSock, rawfds, socks>>

\* register that refuses any instance whose affinity is already stamped
register_once(i, poll, token, interest, opts, outcome) ==
  /\ Idle
  /\ IsLive(i)
  /\ LET a == IF insts[i].selector_id # 0
                THEN [res |-> "AlreadyRegistered", id |-> insts[i].selector_id]
                ELSE associate_selector(insts[i].selector_id, poll)
         c1 == CallRec("associate_selector", NoAddr, 0, a.res)
     IN  IF a.res # "Ok"
           THEN /\ insts' = [insts EXCEPT ![i].selector_id = a.id]
                /\ regs' = regs
                /\ last' = Op("register", i, poll, a.res, 0, NoAddr, <<c1>>)
           ELSE LET s == sys_register(regs, insts[i].fd, poll,
                           [token |-> token, interest |-> interest,
                            opts |-> opts, by |-> i], outcome)
                IN  /\ insts' = [insts EXCEPT ![i].selector_id = a.id]
                    /\ regs' = s.regs
                    /\ last' = Op("register", i, poll, s.res, 0, NoAddr,
                                  <<c1, CallRec("sys.register", NoAddr, 0, s.res)>>)
  /\ UNCHANGED <<platform, cap, closes, fdSock, rawfds, socks>>

\* register that stamps the affinity anew with whatever reactor it is given
register_restamp(i, poll, token, interest, opts, outcome) ==
  /\ Idle
  /\ IsLive(i)
  /\ LET c1 == CallRec("associate_selector", NoAddr, 0, "Ok")
         s == sys_register(regs, insts[i].fd, poll,
                [token |-> token, interest |-> interest,
                 opts |-> opts, by |-> i], outcome)
     IN  /\ insts' = [insts EXCEPT ![i].selector_id = poll]
         /\ regs' = s.regs
         /\ last' = Op("register", i, poll, s.res, 0, NoAddr,
                       <<c1, CallRec("sys.register", NoAddr, 0, s.res)>>)
  /\ UNCHANGED <<platform, cap, closes, fdSock, rawfds, socks>>

\* register whose affinity is shared by all the handles to the same socket
register_linked(i, poll, token, interest, opts, outcome) ==
  /\ Idle
  /\ IsLive(i)
  /\ LET a == associate_selector(insts[i].selector_id, poll)
         c1 == CallRec("associate_selector", NoAddr, 0, a.res)
         linked == [j \in 1..Slots |->
                      IF IsLive(j) /\ SockOf(j) = SockOf(i)
                        THEN [insts[j] EXCEPT !.selector_id = a.id]
                        ELSE insts[j]]
     IN  IF a.res # "Ok"
           THEN /\ insts' = linked
                /\ regs' = regs
                /\ last' = Op("register", i, poll, a.res, 0, NoAddr, <<c1>>)
           ELSE LET s == sys_register(regs, insts[i].fd, poll,
                           [token |-> token, interest |-> interest,
                            opts |-> opts, by |-> i], outcome)
                IN  /\ insts' = linked
                    /\ regs' = s.regs
                    /\ last' = Op("register", i, poll, s.res, 0, NoAddr,
                                  <<c1, CallRec("sys.register", NoAddr, 0, s.res)>>)
  /\ UNCHANGED <<platform, cap, closes, fdSock, rawfds, socks>>

\* register that takes the stamp back when the platform layer fails
register_rollback(i, poll, token, interest, opts, outcome) ==
  /\ Idle
  /\ IsLive(i)
  /\ LET a == associate_selector(insts[i].selector_id, poll)
         c1 == CallRec("associate_selector", NoAddr, 0, a.res)
     IN  IF a.res # "Ok"
           THEN /\ insts' = [insts EXCEPT ![i].selector_id = a.id]
                /\ regs' = regs
                /\ last' = Op("register", i, poll, a.res, 0, NoAddr, <<c1>>)
           ELSE LET s == sys_register(regs, insts[i].fd, poll,
                           [token |-> token, interest |-> interest,
                            opts |-> opts, by |-> i], outcome)
                IN  /\ insts' = IF s.res = "Ok"
                                  THEN [insts EXCEPT ![i].selector_id = a.id]
                                  ELSE insts
                    /\ regs' = s.regs
                    /\ last' = Op("register", i, poll, s.res, 0, NoAddr,
                                  <<c1, CallRec("sys.register", NoAddr, 0, s.res)>>)
  /\ UNCHANGED <<platform, cap, closes, fdSock, rawfds, socks>>

register(i, poll, token, interest, opts, outcome) ==
  /\ Idle
  /\ IsLive(i)
  /\ LET a == associate_selector(insts[i].selector_id, poll)
         c1 == CallRec("associate_selector", NoAddr, 0, a.res)
     IN  IF a.res # "Ok"
           THEN /\ insts' = [insts EXCEPT ![i].selector_id = a.id]
                /\ regs' = regs
                /\ last' = Op("register", i, poll, a.res, 0, NoAddr, <<c1>>)
           ELSE LET s == sys_register(regs, insts[i].fd, poll,
                           [token |-> token, interest |-> interest,
                            opts |-> opts, by |-> i], outcome)
                IN  /\ insts' = [insts EXCEPT ![i].selector_id = a.id]
                    /\ regs' = s.regs
                    /\ last' = Op("register", i, poll, s.res, 0, NoAddr,
                                  <<c1, CallRec("sys.register", NoAddr, 0, s.res)>>)
  /\ UNCHANGED <<platform, cap, closes, fdSock, rawfds, socks>>

\* register, statement by statement. Line 231: try!(associate_selector(poll))
\* register_associate that subscribes with the platform layer before the stamp
register_sys_first(i, poll) ==
  /\ Idle
  /\ IsLive(i)
  /\ LET a == associate_selector(insts[i].selector_id, poll)
         c1 == CallRec("associate_selector", NoAddr, 0, a.res)
     IN  /\ regs' = sys_register(regs, insts[i].fd, poll,
                       [token |-> 1, interest |-> "readable", opts |-> "edge",
                        by |-> i], "Ok").regs
         /\ insts' = insts
         /\ last' = Op("register", i, poll,
                       IF a.res # "Ok" THEN a.res ELSE "Running", 0, NoAddr, <<c1>>)
  /\ UNCHANGED <<platform, cap, closes, fdSock, rawfds, socks>>

register_associate(i, poll) ==
  /\ Idle
  /\ IsLive(i)
  /\ LET a == associate_selector(insts[i].selector_id, poll)
         c1 == CallRec("associate_selector", NoAddr, 0, a.res)
     IN  /\ insts' = [insts EXCEPT ![i].selector_id = a.id]
         /\ last' = Op("register", i, poll,
                       IF a.res # "Ok" THEN a.res ELSE "Running", 0, NoAddr, <<c1>>)
  /\ UNCHANGED <<platform, cap, closes, fdSock, rawfds, socks, regs>>

\* line 232: self.sys.register(poll, token, interest, opts), whose result is
\* the result of register
register_sys(token, interest, opts, outcome) ==
  /\ Running
  /\ last.op = "register"
  /\ LET i == last.inst
         s == sys_register(regs, insts[i].fd, last.poll,
                [token |-> token, interest |-> interest,
                 opts |-> opts, by |-> i], outcome)
     IN  /\ regs' = s.regs
         /\ last' = [last EXCEPT
                       !.res = s.res,
                       !.calls = Append(@, CallRec("sys.register", NoAddr, 0, s.res))]
  /\ UNCHANGED <<platform, cap, closes, insts, fdSock, rawfds, socks>>

\* reregister that checks the affinity the way register does
reregister_checked(i, poll, token, interest, opts, outcome) ==
  /\ Idle
  /\ IsLive(i)
  /\ LET a == associate_selector(insts[i].selector_id, poll)
         c1 == CallRec("associate_selector", NoAddr, 0, a.res)
     IN  IF a.res # "Ok"
           THEN /\ insts' = [insts EXCEPT ![i].selector_id = a.id]
                /\ regs' = regs
                /\ last' = Op("reregister", i, poll, a.res, 0, NoAddr, <<c1>>)
           ELSE LET s == sys_reregister(regs, insts[i].fd, poll,
                           [token |-> token, interest |-> interest,
                            opts |-> opts, by |-> i], outcome)
                IN  /\ insts' = [insts EXCEPT ![i].selector_id = a.id]
                    /\ regs' = s.regs
                    /\ last' = Op("reregister", i, poll, s.res, 0, NoAddr,
                                  <<c1, CallRec("sys.reregister", NoAddr, 0, s.res)>>)
  /\ UNCHANGED <<platform, cap, closes, fdSock, rawfds, socks>>

reregister(i, poll, token, interest, opts, outcome) ==
  /\ Idle
  /\ IsLive(i)
  /\ LET s == sys_reregister(regs, insts[i].fd, poll,
                [token |-> token, interest |-> interest,
                 opts |-> opts, by |-> i], outcome)
     IN  /\ regs' = s.regs
         /\ last' = Op("reregister", i, poll, s.res, 0, NoAddr,
                       <<CallRec("sys.reregister", NoAddr, 0, s.res)>>)
  /\ UNCHANGED <<platform, cap, closes, insts, fdSock, rawfds, socks>>

\* deregister that clears the affinity when the platform layer succeeds
deregister_clears(i, poll, outcome) ==
  /\ Idle
  /\ IsLive(i)
  /\ LET s == sys_deregister(regs, insts[i].fd, poll, outcome)
     IN  /\ regs' = s.regs
         /\ insts' = IF s.res = "Ok"
                       THEN [insts EXCEPT ![i].selector_id = SelectorId_new]
                       ELSE insts
         /\ last' = Op("deregister", i, poll, s.res, 0, NoAddr,
                       <<CallRec("sys.deregister", NoAddr, 0, s.res)>>)
  /\ UNCHANGED <<platform, cap, closes, fdSock, rawfds, socks>>

deregister(i, poll, outcome) ==
  /\ Idle
  /\ IsLive(i)
  /\ LET s == sys_deregister(regs, insts[i].fd, poll, outcome)
     IN  /\ regs' = s.regs
         /\ last' = Op("deregister", i, poll, s.res, 0, NoAddr,
                       <<CallRec("sys.deregister", NoAddr, 0, s.res)>>)
  /\ UNCHANGED <<platform, cap, closes, insts, fdSock, rawfds, socks>>

(* ----------------------------- TcpListener ----------------------------- *)

\* the collaborator call TcpListener::from_listener issues
from_listener_plan(addr) ==
  <<CallRec("sys::TcpListener::new", addr, 0, "Ok")>>

\* the collaborator calls TcpListener::bind issues, in order, when built for
\* target
bind_plan_on(target, addr) ==
  <<TcpBuilder_new(addr)>>
  \o (IF target = "unix"
        THEN <<CallRec("TcpBuilder::reuse_address", NoAddr, 0, "Ok")>>
        ELSE <<>>)
  \o <<CallRec("TcpBuilder::bind", addr, 0, "Ok"),
       CallRec("TcpBuilder::listen", NoAddr, Backlog, "Ok")>>
  \o from_listener_plan(addr)

bind_plan(addr) ==
  bind_plan_on(platform, addr)

\* bind that carries on when listen is rejected
bind_partial(addr, failAt) ==
  /\ Idle
  /\ NextInst <= cap
  /\ failAt <= Len(bind_plan(addr))
  /\ LET listenAt == Len(bind_plan(addr)) - 1
         ok == failAt = 0 \/ failAt = listenAt
     IN  /\ IF ok
              THEN /\ NewOwned("listener", SelectorId_new)
                   /\ socks' = [socks EXCEPT ![NextSock] =
                                  ListeningSock]
              ELSE UNCHANGED <<insts, fdSock, socks>>
         /\ last' = Op("bind", 0, 0, IF ok THEN "Ok" ELSE "OsError",
                       IF ok THEN NextInst ELSE 0, addr,
                       IF failAt = listenAt
                         THEN [k \in 1..Len(bind_plan(addr)) |->
                                 [bind_plan(addr)[k] EXCEPT
                                    !.res = IF k = failAt THEN "OsError" ELSE "Ok"]]
                         ELSE RunPlan(bind_plan(addr), failAt))
  /\ UNCHANGED <<platform, cap, closes, rawfds, regs>>

bind(addr, failAt) ==
  /\ Idle
  /\ NextInst <= cap
  /\ failAt <= Len(bind_plan(addr))
  /\ IF failAt = 0
       THEN /\ NewOwned("listener", SelectorId_new)
            /\ socks' = [socks EXCEPT ![NextSock] =
                           ListeningSock]
       ELSE UNCHANGED <<insts, fdSock, socks>>
  /\ last' = Op("bind", 0, 0, PlanResult(bind_plan(addr), failAt),
                IF failAt = 0 THEN NextInst ELSE 0, addr,
                RunPlan(bind_plan(addr), failAt))
  /\ UNCHANGED <<platform, cap, closes, rawfds, regs>>

\* from_listener on a listening socket the caller built itself
from_listener(addr, failAt) ==
  /\ Idle
  /\ NextInst <= cap
  /\ failAt <= Len(from_listener_plan(addr))
  /\ IF failAt = 0
       THEN /\ NewOwned("listener", SelectorId_new)
            /\ socks' = [socks EXCEPT ![NextSock] =
                           ListeningSock]
       ELSE UNCHANGED <<insts, fdSock, socks>>
  /\ last' = Op("from_listener", 0, 0,
                PlanResult(from_listener_plan(addr), failAt),
                IF failAt = 0 THEN NextInst ELSE 0, addr,
                RunPlan(from_listener_plan(addr), failAt))
  /\ UNCHANGED <<platform, cap, closes, rawfds, regs>>

\* accept that hands the listener's selector id to the accepted stream
accept_inherit(i) ==
  /\ Idle
  /\ insts[i].kind = "listener"
  /\ LET a == sys_accept(socks[SockOf(i)])
         c == CallRec("sys.accept", a.peer, 0, a.res)
     IN  IF a.res = "Ok"
           THEN /\ NextInst <= cap
                /\ NewOwned("stream", SelectorId_clone(insts[i].selector_id))
                /\ socks' = Established([socks EXCEPT ![SockOf(i)] = a.sock],
                                        NextSock, a.peer)
                /\ last' = Op("accept", i, 0, "Ok", NextInst, a.peer, <<c>>)
           ELSE /\ UNCHANGED <<insts, fdSock>>
                /\ socks' = [socks EXCEPT ![SockOf(i)] = a.sock]
                /\ last' = Op("accept", i, 0, a.res, 0, NoAddr, <<c>>)
  /\ UNCHANGED <<platform, cap, closes, rawfds, regs>>

\* accept that turns the platform's would-block into a plain failure
accept_error(i) ==
  /\ Idle
  /\ insts[i].kind = "listener"
  /\ LET a == sys_accept(socks[SockOf(i)])
         c == CallRec("sys.accept", a.peer, 0, a.res)
     IN  IF a.res = "Ok"
           THEN /\ NextInst <= cap
                /\ NewOwned("stream", SelectorId_new)
                /\ socks' = Established([socks EXCEPT ![SockOf(i)] = a.sock],
                                        NextSock, a.peer)
                /\ last' = Op("accept", i, 0, "Ok", NextInst, a.peer, <<c>>)
           ELSE /\ UNCHANGED <<insts, fdSock>>
                /\ socks' = [socks EXCEPT ![SockOf(i)] = a.sock]
                /\ last' = Op("accept", i, 0, "OsError", 0, NoAddr, <<c>>)
  /\ UNCHANGED <<platform, cap, closes, rawfds, regs>>

accept(i) ==
  /\ Idle
  /\ insts[i].kind = "listener"
  /\ LET a == sys_accept(socks[SockOf(i)])
         c == CallRec("sys.accept", a.peer, 0, a.res)
     IN  IF a.res = "Ok"
           THEN /\ NextInst <= cap
                /\ NewOwned("stream", SelectorId_new)
                /\ socks' = Established([socks EXCEPT ![SockOf(i)] = a.sock],
                                        NextSock, a.peer)
                /\ last' = Op("accept", i, 0, "Ok", NextInst, a.peer, <<c>>)
           ELSE /\ UNCHANGED <<insts, fdSock>>
                /\ socks' = [socks EXCEPT ![SockOf(i)] = a.sock]
                /\ last' = Op("accept", i, 0, a.res, 0, NoAddr, <<c>>)
  /\ UNCHANGED <<platform, cap, closes, rawfds, regs>>

(* ------------------------------ UNIX ext ------------------------------- *)

\* the value is dropped: its sys field goes with it, which closes the handle
drop(i) ==
  /\ Idle
  /\ IsLive(i)
  /\ insts' = [insts EXCEPT ![i].kind = "dropped"]
  /\ closes' = [closes EXCEPT ![insts[i].fd] = @ + 1]
  /\ last' = Op("drop", i, 0, "Ok", 0, NoAddr,
                <<CallRec("sys.close", NoAddr, insts[i].fd, "Ok")>>)
  /\ UNCHANGED <<platform, cap, fdSock, rawfds, socks, regs>>

\* into_raw_fd that hands out the handle and leaves the value in place
into_raw_fd_keeps(i) ==
  /\ Idle
  /\ platform = "unix"
  /\ IsLive(i)
  /\ insts' = insts
  /\ rawfds' = rawfds \cup {insts[i].fd}
  /\ last' = Op("into_raw_fd", i, 0, "Ok", 0, NoAddr,
                <<CallRec("sys.into_raw_fd", NoAddr, insts[i].fd, "Ok")>>)
  /\ UNCHANGED <<platform, cap, closes, fdSock, socks, regs>>

\* IntoRawFd: the value is consumed, the handle goes to the caller
into_raw_fd(i) ==
  /\ Idle
  /\ platform = "unix"
  /\ IsLive(i)
  /\ insts' = [insts EXCEPT ![i].kind = "gone"]
  /\ rawfds' = rawfds \cup {insts[i].fd}
  /\ last' = Op("into_raw_fd", i, 0, "Ok", 0, NoAddr,
                <<CallRec("sys.into_raw_fd", NoAddr, insts[i].fd, "Ok")>>)
  /\ UNCHANGED <<platform, cap, closes, fdSock, socks, regs>>

\* FromRawFd for TcpStream and for TcpListener: wraps a handle the caller owns
from_raw_fd(fd) ==
  /\ Idle
  /\ platform = "unix"
  /\ fd \in rawfds
  /\ NextInst <= cap
  /\ insts' = [insts EXCEPT ![NextInst] =
                 [kind |-> socks[fdSock[fd]].kind, fd |-> fd,
                  selector_id |-> SelectorId_new]]
  /\ rawfds' = rawfds \ {fd}
  /\ last' = Op("from_raw_fd", 0, 0, "Ok", NextInst, NoAddr,
                <<CallRec("sys.from_raw_fd", NoAddr, fd, "Ok")>>)
  /\ UNCHANGED <<platform, cap, closes, fdSock, socks, regs>>

(* ----------------------------- environment ----------------------------- *)

\* a peer's connection reaches the accept queue of a listening socket
Incoming(s, peer) ==
  /\ Idle
  /\ socks[s].kind = "listener"
  /\ Len(socks[s].pending) < MaxPending
  /\ socks' = [socks EXCEPT ![s].pending = Append(@, peer)]
  /\ UNCHANGED <<platform, cap, closes, insts, fdSock, rawfds, regs, last>>

\* the connection attempt of local socket c reaches listening socket l and
\* waits in its accept queue
Arrive(c, l) ==
  /\ Idle
  /\ socks[c].kind = "stream"
  /\ socks[c].conn = "connecting"
  /\ socks[l].kind = "listener"
  /\ Len(socks[l].pending) < MaxPending
  /\ socks' = [socks EXCEPT ![c].conn = "queued",
                            ![l].pending = Append(@, ClientAddr(c))]
  /\ UNCHANGED <<platform, cap, closes, insts, fdSock, rawfds, regs, last>>

\* the connection attempt of socket c fails after connect has returned
ConnectFails(c) ==
  /\ Idle
  /\ socks[c].kind = "stream"
  /\ socks[c].conn = "connecting"
  /\ socks' = [socks EXCEPT ![c].conn = "failed",
                            ![c].so_error = "ConnectionRefused"]
  /\ UNCHANGED <<platform, cap, closes, insts, fdSock, rawfds, regs, last>>

\* an error is reported asynchronously on a listening socket
SockError(l) ==
  /\ Idle
  /\ socks[l].kind = "listener"
  /\ socks[l].so_error = "none"
  /\ socks' = [socks EXCEPT ![l].so_error = "OsError"]
  /\ UNCHANGED <<platform, cap, closes, insts, fdSock, rawfds, regs, last>>

\* the caller closes a handle it took out with into_raw_fd
CallerClose(fd) ==
  /\ Idle
  /\ fd \in rawfds
  /\ closes' = [closes EXCEPT ![fd] = @ + 1]
  /\ rawfds' = rawfds \ {fd}
  /\ UNCHANGED <<platform, cap, insts, fdSock, socks, regs, last>>

\* the caller puts the socket of a handle it holds into blocking mode
SetBlocking(fd) ==
  /\ Idle
  /\ fd \in rawfds
  /\ socks[fdSock[fd]].nonblocking
  /\ socks' = [socks EXCEPT ![fdSock[fd]].nonblocking = FALSE]
  /\ UNCHANGED <<platform, cap, closes, insts, fdSock, rawfds, regs, last>>

(* --------------------------- specification ----------------------------- *)

\* The caller takes the result of the call that has just returned.
Return ==
  /\ ~Idle
  /\ ~Running
  /\ last' = NoOp
  /\ UNCHANGED <<platform, cap, closes, insts, fdSock, rawfds, socks, regs>>

\* The registration protocol of tcp.rs is the same code on every target; the
\* Unix build also has the raw-fd conversions, so it is the one explored here.
\* A constructor that fails returns no value and changes no state: the failing
\* runs of the constructors are explored by SpecBuild.
Init ==
  /\ platform = "unix"
  /\ cap = MaxInst
  /\ insts = [i \in 1..Slots |-> NoInst]
  /\ fdSock = [f \in 1..Slots |-> 0]
  /\ closes = [f \in 1..Slots |-> 0]
  /\ rawfds = {}
  /\ socks = [s \in 1..Slots |-> NoSock]
  /\ regs = [f \in 1..Slots |-> [p \in Polls |-> NoReg]]
  /\ last = NoOp

\* The calls of the registration protocol on an instance and its clones. No
\* Evented method and no try_clone looks at whether the instance is a stream
\* or a listener (the two impls are the same code), so the instances here are
\* the streams that connect makes.
NextReg ==
  \/ \E addr \in Addrs : connect(addr, 0)
  \/ \E i \in 1..Slots, outcome \in Outcomes : try_clone(i, outcome)
  \/ \E i \in 1..Slots, poll \in Polls, token \in Tokens,
        interest \in Interests, opts \in PollOpts, outcome \in Outcomes :
          register(i, poll, token, interest, opts, outcome)
  \/ \E i \in 1..Slots, poll \in Polls, token \in Tokens,
        interest \in Interests, opts \in PollOpts, outcome \in Outcomes :
          reregister(i, poll, token, interest, opts, outcome)
  \/ \E i \in 1..Slots, poll \in Polls, outcome \in Outcomes :
          deregister(i, poll, outcome)
  \/ Return

\* every call, and the environment
Next ==
  \/ NextReg
  \/ \E addr \in Addrs : bind(addr, 0)
  \/ \E addr \in Addrs : connect_stream(addr, 0)
  \/ \E addr \in Addrs : from_listener(addr, 0)
  \/ \E i \in 1..Slots : accept(i)
  \/ \E i \in 1..Slots, ttl \in Ttls, outcome \in Outcomes :
          set_ttl(i, ttl, outcome)
  \/ \E i \in 1..Slots : into_raw_fd(i)
  \/ \E fd \in 1..Slots : from_raw_fd(fd)
  \/ \E s \in 1..Slots, peer \in Addrs : Incoming(s, peer)

Spec == Init /\ [][Next]_vars

\* The registration protocol alone.
SpecReg == Init /\ [][NextReg]_vars

\* The registration protocol with register taken one statement at a time.
NextOrder ==
  \/ \E addr \in Addrs : connect(addr, 0)
  \/ \E i \in 1..Slots, outcome \in Outcomes : try_clone(i, outcome)
  \/ \E i \in 1..Slots, poll \in Polls : register_associate(i, poll)
  \/ \E token \in Tokens, interest \in Interests, opts \in PollOpts,
        outcome \in Outcomes : register_sys(token, interest, opts, outcome)
  \/ \E i \in 1..Slots, poll \in Polls, token \in Tokens,
        interest \in Interests, opts \in PollOpts, outcome \in Outcomes :
          reregister(i, poll, token, interest, opts, outcome)
  \/ \E i \in 1..Slots, poll \in Polls, outcome \in Outcomes :
          deregister(i, poll, outcome)
  \/ Return

SpecOrder == Init /\ [][NextOrder]_vars

\* A run that moves bytes: a listener, a stream that connects to it and the
\* stream accept returns, with the errors that reach a socket later.
InitIo ==
  /\ platform = "unix"
  /\ cap = MaxIoInst
  /\ insts = [i \in 1..Slots |-> NoInst]
  /\ fdSock = [f \in 1..Slots |-> 0]
  /\ closes = [f \in 1..Slots |-> 0]
  /\ rawfds = {}
  /\ socks = [s \in 1..Slots |-> NoSock]
  /\ regs = [f \in 1..Slots |-> [p \in Polls |-> NoReg]]
  /\ last = NoOp

NextIo ==
  \/ \E addr \in Addrs, failAt \in 0..4 : connect(addr, failAt)
  \/ \E addr \in Addrs, failAt \in 0..1 : connect_stream(addr, failAt)
  \/ \E addr \in Addrs : bind(addr, 0)
  \/ \E i \in 1..Slots : accept(i)
  \/ \E i \in 1..Slots, n \in 1..MaxBytes : read(i, n)
  \/ \E i \in 1..Slots, buf \in Bufs, k \in 0..MaxBytes :
        write(i, buf, k)
  \/ \E i \in 1..Slots, how \in Hows : shutdown(i, how)
  \/ \E i \in 1..Slots : take_error(i)
  \/ \E c \in 1..Slots, l \in 1..Slots : Arrive(c, l)
  \/ \E c \in 1..Slots : ConnectFails(c)
  \/ \E l \in 1..Slots : SockError(l)
  \/ Return

SpecIo == InitIo /\ [][NextIo]_vars

\* The calls that matter to a socket whose connection never completes: the
\* constructors with their failure points, I/O, shutdown, take_error and the
\* kernel recording an asynchronous error.
NextErr ==
  \/ \E addr \in Addrs, failAt \in 0..4 : connect(addr, failAt)
  \/ \E addr \in Addrs, failAt \in 0..1 : connect_stream(addr, failAt)
  \/ \E addr \in Addrs : bind(addr, 0)
  \/ \E i \in 1..Slots, n \in 1..MaxBytes : read(i, n)
  \/ \E i \in 1..Slots, buf \in Bufs, k \in 0..MaxBytes :
        write(i, buf, k)
  \/ \E i \in 1..Slots, how \in Hows : shutdown(i, how)
  \/ \E i \in 1..Slots : take_error(i)
  \/ \E c \in 1..Slots : ConnectFails(c)
  \/ \E l \in 1..Slots : SockError(l)
  \/ Return

SpecErr == Init /\ [][NextErr]_vars

\* The life of the handles: duplication, extraction and adoption of the raw
\* handle, and the drop of a value.
NextOwn ==
  \/ \E addr \in Addrs : connect(addr, 0)
  \/ \E addr \in Addrs : bind(addr, 0)
  \/ \E i \in 1..Slots, outcome \in Outcomes : try_clone(i, outcome)
  \/ \E i \in 1..Slots, ttl \in Ttls, outcome \in Outcomes :
          set_ttl(i, ttl, outcome)
  \/ \E i \in 1..Slots : into_raw_fd(i)
  \/ \E fd \in 1..Slots : from_raw_fd(fd)
  \/ \E i \in 1..Slots : drop(i)
  \/ \E fd \in 1..Slots : CallerClose(fd)
  \/ \E fd \in 1..Slots : SetBlocking(fd)
  \/ Return

SpecOwn == Init /\ [][NextOwn]_vars

\* The constructors on both targets, with every step that can be rejected.
InitBuild ==
  /\ platform \in Platforms
  /\ cap = MaxInst
  /\ insts = [i \in 1..Slots |-> NoInst]
  /\ fdSock = [f \in 1..Slots |-> 0]
  /\ closes = [f \in 1..Slots |-> 0]
  /\ rawfds = {}
  /\ socks = [s \in 1..Slots |-> NoSock]
  /\ regs = [f \in 1..Slots |-> [p \in Polls |-> NoReg]]
  /\ last = NoOp

NextBuild ==
  \/ \E addr \in Addrs, failAt \in 0..4 : connect(addr, failAt)
  \/ \E addr \in Addrs, failAt \in 0..1 : connect_stream(addr, failAt)
  \/ \E addr \in Addrs, failAt \in 0..5 : bind(addr, failAt)
  \/ \E addr \in Addrs, failAt \in 0..1 : from_listener(addr, failAt)
  \/ Return

SpecBuild == InitBuild /\ [][NextBuild]_vars


(* ------------------------------ properties ----------------------------- *)

\* Each property is about a call that has just returned: last is its record,
\* last.pre the state it was made in, and the variables the state it left.

\* the call recorded in l invoked the collaborator function fn
Invoked(l, fn) == \E k \in 1..Len(l.calls) : l.calls[k].fn = fn

\* the selector id instance i had when the call was made
WasId(i) == last.pre.insts[i].selector_id

\* the registration the handle of instance i had with poll when the call was made
WasReg(i, poll) == last.pre.regs[last.pre.insts[i].fd][poll]

\* instances that are handles to the same kernel socket
Siblings(i, j) == i # j /\ IsLive(i) /\ IsLive(j) /\ SockOf(i) = SockOf(j)

\* C1: register with a reactor other than the one the instance's affinity is
\* stamped with returns the affinity-conflict error without invoking the
\* platform layer's register, and leaves the affinity and every platform
\* registration as they were.
C1_ConflictRejected ==
  \A i \in 1..Slots :
    (last.op = "register" /\ last.inst = i /\ WasId(i) \notin {0, last.poll})
    => /\ last.res = "AlreadyRegistered"
       /\ ~Invoked(last, "sys.register")
       /\ insts[i].selector_id = WasId(i)
       /\ regs = last.pre.regs

\* C1 witness: a register was rejected for affinity while the instance's
\* registration with its own reactor is in place.
C1_Witness ==
  /\ last.op = "register"
  /\ last.res = "AlreadyRegistered"
  /\ WasId(last.inst) \notin {0, last.poll}
  /\ WasReg(last.inst, WasId(last.inst)) # NoReg
  /\ regs[insts[last.inst].fd][WasId(last.inst)] # NoReg

\* C2 as claimed: a register with the reactor the instance is already
\* registered with returns success.
C2_SecondRegisterSucceeds ==
  \A i \in 1..Slots :
    (last.op = "register" /\ last.inst = i /\ WasId(i) = last.poll
       /\ WasReg(i, last.poll) # NoReg)
    => last.res = "Ok"

\* C2 amended: a register with the reactor the instance's affinity is already
\* stamped with passes the affinity check, keeps the affinity, and returns
\* whatever the platform layer's register returns.
C2_SameReactorPassesAffinity ==
  \A i \in 1..Slots :
    (last.op = "register" /\ last.inst = i /\ WasId(i) = last.poll)
    => /\ last.res # "AlreadyRegistered"
       /\ Len(last.calls) = 2
       /\ last.calls[1] = CallRec("associate_selector", NoAddr, 0, "Ok")
       /\ last.calls[2].fn = "sys.register"
       /\ last.res = last.calls[2].res
       /\ last.res \in Outcomes
       /\ insts[i].selector_id = last.poll

\* C2 witness: a register repeated with the same reactor succeeded while the
\* first registration was in place.
C2_Witness ==
  /\ last.op = "register"
  /\ last.res = "Ok"
  /\ WasId(last.inst) = last.poll
  /\ WasReg(last.inst, last.poll) # NoReg
  /\ WasReg(last.inst, last.poll).by = last.inst

\* C3: once set, the affinity of an instance is changed by no call, whatever
\* the reactor; deregister does not clear it, so a register with another
\* reactor is still rejected with the affinity conflict.
C3_AffinitySetOnce ==
  \A i \in 1..Slots :
    /\ (last.op # "none" /\ WasId(i) # 0) => insts[i].selector_id = WasId(i)
    /\ (last.op = "deregister" /\ last.inst = i)
         => insts[i].selector_id = WasId(i)
    /\ (last.op = "register" /\ last.inst = i /\ WasId(i) \notin {0, last.poll})
         => last.res = "AlreadyRegistered"

\* C3 witness: a deregister succeeded and the affinity is still stamped.
C3_Witness ==
  /\ last.op = "deregister"
  /\ last.res = "Ok"
  /\ insts[last.inst].selector_id = last.poll
  /\ \A p \in Polls : regs[insts[last.inst].fd][p] = NoReg

\* C4 as claimed: no kernel socket is registered with two different reactors
\* at once, over all the handles that refer to it.
C4_OneReactorPerSocket ==
  \A f \in 1..Slots, g \in 1..Slots, p \in Polls, q \in Polls :
    (fdSock[f] # 0 /\ fdSock[f] = fdSock[g]
       /\ regs[f][p] # NoReg /\ regs[g][q] # NoReg)
    => p = q

\* C4 amended: the rule is enforced per instance, not per socket: the
\* registrations made by register calls on one instance are all with one
\* reactor.
C4_OneReactorPerInstance ==
  \A f \in 1..Slots, p \in Polls :
    regs[f][p] # NoReg
    => \A g \in 1..Slots, q \in Polls :
         regs[g][q].by = regs[f][p].by => (f = g /\ p = q)

\* C4 witness: two handles to one socket, each registered by its own register
\* call, with different reactors.
C4_Witness ==
  \E i \in 1..Slots, j \in 1..Slots, p \in Polls, q \in Polls :
    /\ Siblings(i, j)
    /\ p # q
    /\ regs[insts[i].fd][p].by = i
    /\ regs[insts[j].fd][q].by = j

\* C5: reregister and deregister neither read nor write the affinity: the call
\* is the platform layer's call and its result, for any reactor; without a
\* registration the result is the platform's not-found error.
C5_NoAffinityCheck ==
  \A i \in 1..Slots :
    /\ (last.op = "reregister" /\ last.inst = i)
         => /\ insts = last.pre.insts
            /\ Len(last.calls) = 1
            /\ last.calls[1].fn = "sys.reregister"
            /\ \E t \in Tokens, n \in Interests, o \in PollOpts,
                  out \in Outcomes :
                 LET s == sys_reregister(last.pre.regs, insts[i].fd, last.poll,
                            [token |-> t, interest |-> n, opts |-> o,
                             by |-> i], out)
                 IN  last.res = s.res /\ regs = s.regs
            /\ (WasReg(i, last.poll) = NoReg => last.res = "NotFound")
    /\ (last.op = "deregister" /\ last.inst = i)
         => /\ insts = last.pre.insts
            /\ Len(last.calls) = 1
            /\ last.calls[1].fn = "sys.deregister"
            /\ \E out \in Outcomes :
                 LET s == sys_deregister(last.pre.regs, insts[i].fd,
                                         last.poll, out)
                 IN  last.res = s.res /\ regs = s.regs
            /\ (WasReg(i, last.poll) = NoReg => last.res = "NotFound")

\* C5 witness: reregister on an instance that was never registered returned
\* not-found and the affinity is still unset.
C5_Witness ==
  /\ last.op = "reregister"
  /\ last.res = "NotFound"
  /\ WasId(last.inst) = 0
  /\ insts[last.inst].selector_id = 0

\* the constructors other than try_clone
Constructors ==
  {"connect", "connect_stream", "bind", "from_listener", "accept", "from_raw_fd"}

\* C6: an instance made by a constructor other than try_clone starts with an
\* unset affinity, whatever the affinity of the listener that accepted it or
\* of the instance its handle was taken from, and no other instance changes.
C6_FreshAffinity ==
  (last.op \in Constructors /\ last.new # 0)
  => /\ last.pre.insts[last.new].kind = "none"
     /\ IsLive(last.new)
     /\ insts[last.new].selector_id = 0
     /\ \A j \in 1..Slots : j # last.new => insts[j] = last.pre.insts[j]

\* C6 witness: a listener stamped with a reactor accepted a stream, and the
\* stream's affinity is unset.
C6_Witness ==
  /\ last.op = "accept"
  /\ last.new # 0
  /\ insts[last.inst].selector_id # 0
  /\ insts[last.new].selector_id = 0

\* C7: try_clone gives the clone the affinity the source has at the call and
\* leaves the source alone; a stamped handle, clone or not, rejects another
\* reactor and passes its own.
C7_CloneCopiesAffinity ==
  \A i \in 1..Slots :
    /\ (last.op = "try_clone" /\ last.inst = i /\ last.new # 0)
         => /\ last.pre.insts[last.new].kind = "none"
            /\ insts[last.new].selector_id = WasId(i)
            /\ insts[last.new].kind = insts[i].kind
            /\ insts[last.new].fd # insts[i].fd
            /\ SockOf(last.new) = SockOf(i)
            /\ insts[i] = last.pre.insts[i]
    /\ (last.op = "register" /\ last.inst = i /\ WasId(i) # 0)
         => (last.res = "AlreadyRegistered" <=> last.poll # WasId(i))

\* C7 witness: a clone was taken of a stamped instance and carries its stamp.
C7_Witness ==
  /\ last.op = "try_clone"
  /\ last.new # 0
  /\ WasId(last.inst) # 0
  /\ insts[last.new].selector_id = WasId(last.inst)

\* C8: a register changes the affinity of no other instance, and on an unset
\* handle it passes the affinity check whatever its siblings are stamped with.
C8_HandlesIndependent ==
  \A i \in 1..Slots :
    (last.op = "register" /\ last.inst = i)
    => /\ \A j \in 1..Slots : j # i => insts[j] = last.pre.insts[j]
       /\ WasId(i) = 0
            => /\ last.res # "AlreadyRegistered"
               /\ insts[i].selector_id = last.poll

\* C8 witness: an unset handle was registered with one reactor while a handle
\* to the same socket is stamped with another one.
C8_Witness ==
  /\ last.op = "register"
  /\ WasId(last.inst) = 0
  /\ last.res = "Ok"
  /\ \E j \in 1..Slots :
       /\ Siblings(last.inst, j)
       /\ insts[j].selector_id \notin {0, last.poll}

C10_Steps(addr) ==
  <<[fn |-> IF addr.fam = "V4" THEN "TcpBuilder::new_v4"
            ELSE "TcpBuilder::new_v6", addr |-> NoAddr, n |-> 0]>>
  \o (IF platform = "unix"
        THEN <<[fn |-> "TcpBuilder::reuse_address", addr |-> NoAddr, n |-> 0]>>
        ELSE <<>>)
  \o <<[fn |-> "TcpBuilder::bind", addr |-> addr, n |-> 0],
       [fn |-> "TcpBuilder::listen", addr |-> NoAddr, n |-> 1024],
       [fn |-> "sys::TcpListener::new", addr |-> addr, n |-> 0]>>

\* C10: bind runs socket creation, address reuse (Unix only), bind, listen
\* with backlog 1024 and the wrapping, in that order; the first step that is
\* rejected ends it with that step's error, and then no listener exists.
C10_BindAtomic ==
  last.op = "bind"
  => LET c == last.calls
         w == C10_Steps(last.addr)
     IN  /\ Len(c) \in 1..Len(w)
         /\ \A k \in 1..Len(c) :
              /\ c[k].fn = w[k].fn
              /\ c[k].addr = w[k].addr
              /\ c[k].n = w[k].n
              /\ k < Len(c) => c[k].res = "Ok"
         /\ IF c[Len(c)].res = "Ok"
              THEN /\ Len(c) = Len(w)
                   /\ last.res = "Ok"
                   /\ last.new # 0
                   /\ last.pre.insts[last.new].kind = "none"
                   /\ insts[last.new].kind = "listener"
                   /\ socks[SockOf(last.new)].kind = "listener"
              ELSE /\ last.res = c[Len(c)].res
                   /\ last.new = 0
                   /\ Snapshot = last.pre

\* C10 witness: listen was rejected after the socket was bound, and bind
\* returned the error and no listener.
C10_Witness ==
  /\ last.op = "bind"
  /\ last.res = "OsError"
  /\ last.calls[Len(last.calls)].fn = "TcpBuilder::listen"
  /\ last.new = 0
  /\ \A i \in 1..Slots : insts[i].kind = "none"


\* C16: the stamp is not taken back when the platform layer's register fails:
\* a register on an unset instance that does not succeed returns the platform
\* error, leaves the affinity set to the reactor it was given and leaves the
\* registrations as they were; from then on a register with another reactor
\* is rejected with the affinity conflict, registered or not.
C16_StampNotRolledBack ==
  \A i \in 1..Slots :
    /\ (last.op = "register" /\ last.inst = i /\ WasId(i) = 0
          /\ last.res # "Ok")
         => /\ Len(last.calls) = 2
            /\ last.calls[2].fn = "sys.register"
            /\ last.res = last.calls[2].res
            /\ last.res = "OsError"
            /\ insts[i].selector_id = last.poll
            /\ regs = last.pre.regs
    /\ (last.op = "register" /\ last.inst = i /\ WasId(i) \notin {0, last.poll}
          /\ \A p \in Polls : WasReg(i, p) = NoReg)
         => /\ last.res = "AlreadyRegistered"
            /\ regs = last.pre.regs

\* C16 witness: the platform layer failed the first register of an instance,
\* which is now stamped and registered with no reactor.
C16_Witness ==
  /\ last.op = "register"
  /\ last.res = "OsError"
  /\ WasId(last.inst) = 0
  /\ insts[last.inst].selector_id = last.poll
  /\ \A p \in Polls : regs[insts[last.inst].fd][p] = NoReg


\* C15: in every state, between the statements of register too, a platform
\* registration that a register call on an instance made is with the reactor
\* the instance's affinity is set to; and when register has stamped and not
\* yet called the platform layer, the registrations are as they were.
C15_StampBeforeRegistration ==
  /\ \A i \in 1..Slots, f \in 1..Slots, p \in Polls :
       (regs[f][p] # NoReg /\ regs[f][p].by = i) => insts[i].selector_id = p
  /\ (Running /\ last.op = "register")
       => /\ insts[last.inst].selector_id = last.poll
          /\ regs = last.pre.regs

\* C15 witness: register has stamped an unset instance and the platform layer
\* holds no registration of it yet.
C15_Witness ==
  /\ Running
  /\ last.op = "register"
  /\ WasId(last.inst) = 0
  /\ insts[last.inst].selector_id = last.poll
  /\ regs[insts[last.inst].fd][last.poll] = NoReg


\* the steps every target takes in connect and in bind, as names
C18_Common(op, addr) ==
  LET new == IF addr.fam = "V4" THEN "TcpBuilder::new_v4"
             ELSE "TcpBuilder::new_v6"
  IN  IF op = "connect"
        THEN <<new, "TcpBuilder::to_tcp_stream", "sys::TcpStream::connect">>
        ELSE <<new, "TcpBuilder::bind", "TcpBuilder::listen",
               "sys::TcpListener::new">>

\* the step only one target takes, right after the socket is created
C18_Conditional(op, target) ==
  IF op = "connect" /\ target = "windows" THEN <<"TcpBuilder::bind">>
  ELSE IF op = "bind" /\ target = "unix" THEN <<"TcpBuilder::reuse_address">>
  ELSE <<>>

\* the names of the collaborator functions a call invoked, in order
C18_Names(calls) == [k \in 1..Len(calls) |-> calls[k].fn]

\* C18 as claimed: with every step accepted, connect and bind make the calls
\* they would make when built for any other target.
C18_SameCallsEveryPlatform ==
  (last.op \in {"connect", "bind"} /\ last.res = "Ok")
  => \A target \in Platforms :
       last.calls = (IF last.op = "connect"
                       THEN connect_plan_on(target, last.addr)
                       ELSE bind_plan_on(target, last.addr))

\* C18 amended: connect and bind take the same steps on every target but for
\* one step each, taken right after the socket is created: connect binds to
\* the wildcard address of the family on Windows only, bind sets address
\* reuse on Unix only.
C18_SameCallsButConditionalStep ==
  (last.op \in {"connect", "bind"})
  => LET w == <<C18_Common(last.op, last.addr)[1]>>
              \o C18_Conditional(last.op, platform)
              \o Tail(C18_Common(last.op, last.addr))
         c == C18_Names(last.calls)
     IN  /\ Len(c) \in 1..Len(w)
         /\ c = SubSeq(w, 1, Len(c))
         /\ last.res = "Ok" <=> (Len(c) = Len(w) /\ last.calls[Len(c)].res = "Ok")
         /\ (last.op = "connect" /\ platform = "windows" /\ Len(c) >= 2)
              => last.calls[2].addr = inaddr_any(last.addr)

\* C18 witness: a connect built for Windows went through, with the bind to
\* the wildcard address among its calls.
C18_Witness ==
  /\ last.op = "connect"
  /\ platform = "windows"
  /\ last.res = "Ok"
  /\ last.new # 0
  /\ Len(last.calls) = 4
  /\ last.calls[2] = CallRec("TcpBuilder::bind", inaddr_any(last.addr), 0, "Ok")


\* the socket of instance i when the call was made, and now
WasSock(i) == last.pre.socks[last.pre.fdSock[last.pre.insts[i].fd]]
NowSock(i) == socks[SockOf(i)]

\* every socket but that of instance i is as it was when the call was made
OthersUntouched(i) ==
  \A s \in 1..Slots : s # SockOf(i) => socks[s] = last.pre.socks[s]

\* C11: connect and connect_stream return an error only when a step was
\* rejected outright, and then no stream exists; otherwise they return a
\* stream whose connect is in progress. A failure that reaches the socket
\* later stays pending on it until take_error returns it or a read or write
\* fails with it.
C11_DeferredConnectFailure ==
  /\ last.op \in {"connect", "connect_stream"}
       => IF last.res = "Ok"
            THEN /\ \A k \in 1..Len(last.calls) : last.calls[k].res = "Ok"
                 /\ last.new # 0
                 /\ last.pre.insts[last.new].kind = "none"
                 /\ insts[last.new].kind = "stream"
                 /\ NowSock(last.new).conn = "connecting"
                 /\ NowSock(last.new).so_error = "none"
            ELSE /\ last.res = "OsError"
                 /\ last.calls[Len(last.calls)].res = last.res
                 /\ last.new = 0
                 /\ Snapshot = last.pre
  /\ \A s \in 1..Slots :
       (last.op # "none" /\ last.pre.socks[s].so_error # "none"
          /\ socks[s].so_error = "none")
       => /\ last.op \in {"take_error", "read", "write"}
          /\ s = SockOf(last.inst)
          /\ IF last.op = "take_error"
               THEN last.res = "Ok"
                    /\ last.data = <<last.pre.socks[s].so_error>>
               ELSE last.res = last.pre.socks[s].so_error
  /\ \A i \in 1..Slots :
       (last.op \in {"read", "write"} /\ last.inst = i
          /\ WasSock(i).so_error # "none")
       => last.res = WasSock(i).so_error

\* C11 witness: the connect of a stream that connect returned failed later,
\* and the next write on the stream failed with that error.
C11_Witness ==
  /\ last.op = "write"
  /\ last.res = "ConnectionRefused"
  /\ WasSock(last.inst).conn = "failed"
  /\ WasSock(last.inst).so_error = "ConnectionRefused"
  /\ NowSock(last.inst).so_error = "none"

\* C12: take_error returns the pending socket error and clears it, and
\* changes nothing else; with nothing pending it returns none and changes
\* nothing, which is what a take_error right after another one finds.
C12_TakeErrorDrainsOnce ==
  \A i \in 1..Slots :
    (last.op = "take_error" /\ last.inst = i)
    => /\ last.res = "Ok"
       /\ last.data = (IF WasSock(i).so_error = "none" THEN <<>>
                       ELSE <<WasSock(i).so_error>>)
       /\ NowSock(i).so_error = "none"
       /\ NowSock(i) = [WasSock(i) EXCEPT !.so_error = "none"]
       /\ OthersUntouched(i)
       /\ insts = last.pre.insts
       /\ regs = last.pre.regs
       /\ (WasSock(i).so_error = "none" => Snapshot = last.pre)

\* C12 witness: take_error on a listener returned the error that was pending
\* and left none pending.
C12_Witness ==
  /\ last.op = "take_error"
  /\ insts[last.inst].kind = "listener"
  /\ last.data = <<"OsError">>
  /\ WasSock(last.inst).so_error = "OsError"
  /\ NowSock(last.inst).so_error = "none"

\* C13: the bytes a write reports as written are appended, in order, to what
\* the socket has sent; a read returns the next unread bytes of what the peer
\* has sent, as many as fit, and moves past them; a read with nothing unread
\* returns would-block and changes nothing. So the reads of one end return
\* the bytes written at the other end, each once and in order.
C13_RoundTrip ==
  /\ \A s \in 1..Slots :
       socks[s].peer # 0
       => /\ socks[socks[s].peer].peer = s
          /\ socks[s].nread <= Len(socks[socks[s].peer].sent)
  /\ \A i \in 1..Slots :
       (last.op = "write" /\ last.inst = i)
       => /\ IF last.res = "Ok"
               THEN /\ last.n \in 1..Len(last.data)
                    /\ NowSock(i).sent
                         = WasSock(i).sent \o SubSeq(last.data, 1, last.n)
               ELSE /\ last.n = 0
                    /\ NowSock(i).sent = WasSock(i).sent
          /\ NowSock(i).nread = WasSock(i).nread
          /\ OthersUntouched(i)
  /\ \A i \in 1..Slots :
       (last.op = "read" /\ last.inst = i)
       => LET b == WasSock(i)
              p == PeerSock(last.pre.socks, SockOf(i))
              unread == Len(p.sent) - b.nread
              ready == b.conn = "connected" /\ b.so_error = "none" /\ ~b.rd_shut
          IN  /\ last.n = Len(last.data)
              /\ last.n <= last.calls[1].n
              /\ last.data = SubSeq(p.sent, b.nread + 1, b.nread + last.n)
              /\ NowSock(i).nread = b.nread + last.n
              /\ last.res # "Ok" => last.n = 0
              /\ (ready /\ unread > 0)
                   => /\ last.res = "Ok"
                      /\ last.n = (IF unread < last.calls[1].n THEN unread
                                   ELSE last.calls[1].n)
              /\ (ready /\ unread = 0 /\ ~p.wr_shut)
                   => /\ last.res = "WouldBlock"
                      /\ Snapshot = last.pre
              /\ OthersUntouched(i)

\* C13 witness: after bind, connect and accept, one read returned the two
\* different bytes the other end wrote, in the order they were written.
C13_Witness ==
  /\ last.op = "read"
  /\ last.res = "Ok"
  /\ last.n = 2
  /\ last.data[1] # last.data[2]
  /\ last.data = PeerSock(socks, SockOf(last.inst)).sent
  /\ \E l \in 1..Slots : insts[l].kind = "listener"

\* C14: once the sending half of a stream's socket is shut down, a write on
\* it fails and sends nothing; the shutdown keeps the bytes written before,
\* and the peer reads them and then the end of the stream.
C14_HalfClose ==
  \A i \in 1..Slots :
    /\ (last.op = "write" /\ last.inst = i /\ WasSock(i).wr_shut)
         => /\ last.res \notin {"Ok", "WouldBlock"}
            /\ last.n = 0
            /\ NowSock(i).sent = WasSock(i).sent
    /\ (last.op = "shutdown" /\ last.inst = i /\ last.res = "Ok"
          /\ last.data[1] \in {"Write", "Both"})
         => /\ NowSock(i).wr_shut
            /\ NowSock(i).sent = WasSock(i).sent
            /\ OthersUntouched(i)
    /\ (last.op = "read" /\ last.inst = i
          /\ PeerSock(last.pre.socks, SockOf(i)).wr_shut
          /\ WasSock(i).conn = "connected" /\ WasSock(i).so_error = "none"
          /\ ~WasSock(i).rd_shut)
         => LET p == PeerSock(last.pre.socks, SockOf(i))
            IN  /\ last.res = "Ok"
                /\ IF WasSock(i).nread < Len(p.sent)
                     THEN /\ last.n >= 1
                          /\ last.data = SubSeq(p.sent, WasSock(i).nread + 1,
                                                 WasSock(i).nread + last.n)
                     ELSE last.n = 0

\* C14 witness: a write after shutdown(Write) failed while bytes written
\* before the shutdown are still unread at the peer.
C14_Witness ==
  /\ last.op = "write"
  /\ last.res = "BrokenPipe"
  /\ WasSock(last.inst).wr_shut
  /\ Len(NowSock(last.inst).sent) >= 1
  /\ PeerSock(socks, SockOf(last.inst)).nread < Len(NowSock(last.inst).sent)


\* C17 as claimed: the socket of every stream is in non-blocking mode.
C17_AlwaysNonBlocking ==
  \A i \in 1..Slots :
    insts[i].kind = "stream" => socks[SockOf(i)].nonblocking

\* the owners of handle f: the live values that hold it, the caller if it
\* took it out, and nobody once it is closed
C19_Owners(f) ==
  Cardinality({i \in 1..Slots : IsLive(i) /\ insts[i].fd = f})
    + (IF f \in rawfds THEN 1 ELSE 0)

\* C19: every handle has one owner until it is closed, and is closed at most
\* once: the drop of a value closes its handle and no other; into_raw_fd
\* closes nothing, consumes the value and makes the caller the owner; a value
\* in use holds a handle that is open, whatever happened to the handles of
\* its siblings.
C19_ClosedOnceByOneOwner ==
  /\ \A f \in 1..Slots :
       /\ closes[f] <= 1
       /\ fdSock[f] # 0 => C19_Owners(f) + closes[f] = 1
       /\ fdSock[f] = 0 => (C19_Owners(f) = 0 /\ closes[f] = 0)
  /\ \A i \in 1..Slots :
       IsLive(i) => (closes[insts[i].fd] = 0 /\ fdSock[insts[i].fd] # 0)
  /\ \A i \in 1..Slots :
       (last.op = "drop" /\ last.inst = i)
       => /\ ~IsLive(i)
          /\ closes = [last.pre.closes EXCEPT ![insts[i].fd] = @ + 1]
          /\ \A j \in 1..Slots : j # i => insts[j] = last.pre.insts[j]
          /\ rawfds = last.pre.rawfds
  /\ \A i \in 1..Slots :
       (last.op = "into_raw_fd" /\ last.inst = i)
       => /\ ~IsLive(i)
          /\ closes = last.pre.closes
          /\ rawfds = last.pre.rawfds \cup {insts[i].fd}
          /\ \A j \in 1..Slots : j # i => insts[j] = last.pre.insts[j]

\* C19 witness: one of two handles to a socket was closed by the drop of its
\* value, and the sibling is live with its handle open.
C19_Witness ==
  /\ last.op = "drop"
  /\ closes[insts[last.inst].fd] = 1
  /\ \E j \in 1..Slots :
       /\ j # last.inst
       /\ IsLive(j)
       /\ SockOf(j) = SockOf(last.inst)
       /\ insts[j].fd # insts[last.inst].fd
       /\ closes[insts[j].fd] = 0

=============================================================================
